---- MODULE Spec2Model ----
(***************************************************************************)
(* Model of the contact-email crawler (src/script.py):                     *)
(*   GoogleSearchAPI.search_domain  - date-bucketed, paginated search      *)
(*   WebCrawler.crawl_page          - seed page, then contact-page fallback *)
(*   MongoDBHandler.save_result     - upsert of (url, email) records        *)
(* Each component has its own specification (SearchSpec, CrawlSpec,        *)
(* SaveSpec) over one set of variables; a component that is not running    *)
(* keeps its variables at their initial values.                            *)
(***************************************************************************)
EXTENDS Integers, Sequences, FiniteSets, TLC

VARIABLES
    \* ---- WebCrawler.crawl_page ----
    pc,            \* position in crawl_page
    url,           \* the argument: the seed URL
    browser,       \* local `browser`: "unbound" | "open" | "closed"
    context,       \* local `context`: "unbound" | "open" | "closed"
    emails,        \* local `emails` (list built from a set: kept as a set)
    contact_urls,  \* local `contact_urls` (a Python set)
    remaining,     \* elements the for-loop iterator has not yielded yet
    visited_urls,  \* local `visited_urls`
    result,        \* the returned dict, NoResult until a return statement ran
    seed_outcome,  \* history: what goto / wait_for_load_state of the seed gave
    seed_emails,   \* history: what extract_emails returned for the seed page
    fetched,       \* history: candidates page.goto was called on
    failed,        \* history: candidates whose fetch gave no response or raised
    success_url,   \* history: the candidate whose page yielded emails
    success_emails, \* history: what extract_emails returned for that page
    navigations,   \* history: number of page.goto calls so far
    \* ---- GoogleSearchAPI.search_domain ----
    spc,           \* position in search_domain
    days_back,     \* the argument
    date_ranges,   \* local `date_ranges`
    range_index,   \* which element of date_ranges the for-loop is at (0: none)
    start_index,   \* local `start_index`
    results_len,   \* len(results) of the page being processed
    result_index,  \* how many elements of `results` the inner for-loop has taken
    all_results,   \* local `all_results`
    seen_urls,     \* local `seen_urls`
    req_offset,    \* history: `start` of the latest request for the current
                   \* date range, 0 before its first request
    req_kind,      \* history: what the latest request met
    queried,       \* history: indices of the date ranges a request was made for
    failed_ranges, \* history: indices of the date ranges a request failed in
    window_requests,   \* history: number of requests made for the current
                       \* date range
    slept,         \* history: time.sleep ran since the latest request
    \* ---- MongoDBHandler.save_result ----
    collection,    \* the documents of scraped_sites, in insertion order
    now,           \* what datetime.utcnow() returns
    save_calls,    \* history: number of save_result calls so far
    save_arg,      \* history: the argument of the latest save_result call
    written,       \* history: per (url, email) key, the times of its first and
                   \* its latest successful upsert
    save_attempted,     \* history: the emails update_one was called for in the
                        \* latest save_result call
    save_after_failure, \* history: those of them it was called for after an
                        \* earlier update_one of the same call had raised
    \* ---- main ----
    mpc,           \* position in main
    environ,       \* the environment variables that are set and not empty
    input_json,    \* the file input.json
    exit_status,   \* <<>> while the process runs, then <<its exit status>>
    message,       \* the error line main or load_input_config printed, or ""
    files,         \* what main created in the file system
    search_days_back,  \* history: the days_back search_domain ran with, 0
                       \* before the call
    results,       \* local `results`: what search_domain returned
    result_pos,    \* how many elements of `results` the for-loop has taken
    main_all_results,  \* local `all_results` of main
    crawl_calls,   \* history: the arguments of the crawl_page calls, in order
    save_log,      \* history: the arguments of the save_result calls, in order
    \* ---- WebCrawler.extract_emails, statement by statement ----
    epc,           \* position in extract_emails
    potential_emails,  \* local `potential_emails`: what findall(text) gave
    email_index,   \* how many elements of potential_emails the loop has taken
    filtered_emails,   \* local `filtered_emails`
    extracted,     \* the returned list
    \* ---- RedditJSONSearcher.search_subreddit_paginated ----
    rpc,           \* position in search_subreddit_paginated
    max_posts,     \* the argument
    all_posts,     \* local `all_posts`
    after,         \* local `after`: NoCursor for None
    page_len,      \* len(posts) of the page being processed
    page_index,    \* how many elements of `posts` the for-loop has taken
    reddit_requests,   \* history: number of requests.get calls so far
    reddit_failure,    \* history: what ended the loop, "" while none did
    returned_posts     \* the returned list

crawlVars == <<pc, url, browser, context, emails, contact_urls, remaining,
               visited_urls, result, seed_outcome, seed_emails, fetched, failed,
               success_url, success_emails, navigations>>

searchHistory == <<req_offset, req_kind, queried, failed_ranges, window_requests,
                  slept>>

searchVars == <<spc, days_back, date_ranges, range_index, start_index, results_len,
                result_index, all_results, seen_urls, searchHistory>>

saveVars == <<collection, now, save_calls, save_arg, written, save_attempted,
              save_after_failure>>

mainVars == <<mpc, environ, input_json, exit_status, message, files,
              search_days_back, results,
              result_pos, main_all_results, crawl_calls, save_log>>

extractVars == <<epc, potential_emails, email_index, filtered_emails, extracted>>

redditVars == <<rpc, max_posts, all_posts, after, page_len, page_index,
                reddit_requests, reddit_failure, returned_posts>>

vars == <<crawlVars, searchVars, saveVars, mainVars, extractVars, redditVars>>

(***************************************************************************)
(* Bounds of the model.                                                    *)
(***************************************************************************)
\* Longest list of regex matches a page text holds.
MaxMatches == 2
\* Most <a href> links a parsed page holds.
MaxLinks == 2
\* Largest days_back handed to search_domain.
MaxDaysBack == 2
\* Most save_result calls in a run.
MaxSaves == 3
\* Last instant of the clock.
MaxClock == 2
\* Most hits search_domain returns to main.
MaxHits == 2
\* Largest max_posts handed to search_subreddit_paginated.
MaxPosts == 3
\* Most posts one listing of the forum API holds.
MaxPageLen == 2

(***************************************************************************)
(* Strings.  TLC's strings are atomic, so the strings the code inspects    *)
(* character by character (str.lower(), `x in s`, len(s)) are spelled out. *)
(***************************************************************************)
Chars(s) ==
    CASE s = "example" -> <<"e","x","a","m","p","l","e">>
      [] s = "domain" -> <<"d","o","m","a","i","n">>
      [] s = "email" -> <<"e","m","a","i","l">>
      [] s = "user" -> <<"u","s","e","r">>
      [] s = "contact" -> <<"c","o","n","t","a","c","t">>
      [] s = "about" -> <<"a","b","o","u","t">>
      [] s = "team" -> <<"t","e","a","m">>
      [] s = "support" -> <<"s","u","p","p","o","r","t">>
      [] s = "help" -> <<"h","e","l","p">>
      [] s = "reach" -> <<"r","e","a","c","h">>
      [] s = "connect" -> <<"c","o","n","n","e","c","t">>
      [] s = "get in touch" -> <<"g","e","t"," ","i","n"," ","t","o","u","c","h">>
      [] s = "email us" -> <<"e","m","a","i","l"," ","u","s">>
      [] s = "write to us" -> <<"w","r","i","t","e"," ","t","o"," ","u","s">>
      [] s = "contact us" -> <<"c","o","n","t","a","c","t"," ","u","s">>
      [] s = "hello@acme.test" -> <<"h","e","l","l","o","@","a","c","m","e",".","t","e","s","t">>
      [] s = "User@acme.test" -> <<"U","s","e","r","@","a","c","m","e",".","t","e","s","t">>
      [] s = "a@b.co" -> <<"a","@","b",".","c","o">>
      [] s = "info@example.com" ->
             <<"i","n","f","o","@","e","x","a","m","p","l","e",".","c","o","m">>
      [] s = "sales@my-domain.org" ->
             <<"s","a","l","e","s","@","m","y","-","d","o","m","a","i","n",".",
               "o","r","g">>
      [] s = "Contact Us" -> <<"C","o","n","t","a","c","t"," ","U","s">>
      [] s = "Blog" -> <<"B","l","o","g">>
      [] s = "Our Team" -> <<"O","u","r"," ","T","e","a","m">>
      [] s = "timeout" -> <<"t","i","m","e","o","u","t">>
      [] s = "Timeout 30000ms exceeded." ->
             <<"T","i","m","e","o","u","t"," ","3","0","0","0","0","m","s"," ",
               "e","x","c","e","e","d","e","d",".">>
      [] s = "net::ERR_NAME_NOT_RESOLVED" ->
             <<"n","e","t",":",":","E","R","R","_","N","A","M","E","_","N","O","T","_",
               "R","E","S","O","L","V","E","D">>

\* str.lower() on one character
LowerChar(c) ==
    CASE c = "A" -> "a" [] c = "B" -> "b" [] c = "C" -> "c" [] c = "D" -> "d"
      [] c = "E" -> "e" [] c = "F" -> "f" [] c = "G" -> "g" [] c = "H" -> "h"
      [] c = "I" -> "i" [] c = "J" -> "j" [] c = "K" -> "k" [] c = "L" -> "l"
      [] c = "M" -> "m" [] c = "N" -> "n" [] c = "O" -> "o" [] c = "P" -> "p"
      [] c = "Q" -> "q" [] c = "R" -> "r" [] c = "S" -> "s" [] c = "T" -> "t"
      [] c = "U" -> "u" [] c = "V" -> "v" [] c = "W" -> "w" [] c = "X" -> "x"
      [] c = "Y" -> "y" [] c = "Z" -> "z" [] OTHER -> c

\* str.lower()
Lower(cs) == [i \in 1..Len(cs) |-> LowerChar(cs[i])]

\* `sub in cs` on Python strings
Contains(cs, sub) ==
    \E i \in 0..(Len(cs) - Len(sub)) :
        \A j \in 1..Len(sub) : cs[i + j] = sub[j]

\* All sequences over S of length at most n
SeqsUpTo(S, n) == UNION {[1..k -> S] : k \in 0..n}

\* The set of a sequence's elements
Range(s) == {s[i] : i \in 1..Len(s)}

(***************************************************************************)
(* URLs: a network location and a path (a sequence of segments).           *)
(***************************************************************************)
Url(n, p) == [netloc |-> n, path |-> p]

\* urlparse(u).netloc
netloc(u) == u.netloc

\* urljoin(base_url, href).  An href is "rooted" (/a/b), "absolute"
\* (http://host/a/b), "scheme_relative" (//host/a/b) or "relative" (a/b).
urljoin(base_url, href) ==
    CASE href.form = "rooted" -> Url(base_url.netloc, href.path)
      [] href.form = "absolute" -> Url(href.netloc, href.path)
      [] href.form = "scheme_relative" -> Url(href.netloc, href.path)
      [] href.form = "relative" ->
            Url(base_url.netloc,
                (IF base_url.path = <<>> THEN <<>>
                 ELSE SubSeq(base_url.path, 1, Len(base_url.path) - 1)) \o href.path)

Href(f, n, p) == [form |-> f, netloc |-> n, path |-> p]

\* href.startswith('/')
StartsWithSlash(href) == href.form \in {"rooted", "scheme_relative"}

\* href.startswith('http')
StartsWithHttp(href) == href.form = "absolute"

(***************************************************************************)
(* WebCrawler.__init__                                                     *)
(***************************************************************************)
contact_keywords ==
    <<"contact", "about", "team", "support", "help", "reach", "connect",
      "get in touch", "email us", "write to us", "contact us">>

contact_paths ==
    << <<"contact">>, <<"about">>, <<"team">>, <<"support">>, <<"help">>,
       <<"contact-us">>, <<"about-us">>, <<"get-in-touch">> >>

\* The tokens extract_emails rejects
false_positives == <<"example", "domain", "email", "user">>

(***************************************************************************)
(* The world the crawler runs in.                                          *)
(***************************************************************************)
\* Seed URLs handed to crawl_page
SeedUrls == {Url("acme.test", <<>>), Url("acme.test", <<"contact">>)}

\* What email_pattern.findall can return for a page text
MatchPool ==
    {"hello@acme.test", "User@acme.test", "a@b.co", "info@example.com",
     "sales@my-domain.org"}

\* A page text, as the list of its regex matches
PageTexts == SeqsUpTo(MatchPool, MaxMatches)

\* <a href=...>text</a> elements a page may hold
LinkPool ==
    { [href |-> Href("rooted", "", <<"reach-us">>), text |-> "Contact Us"],
      [href |-> Href("absolute", "other.test", <<"contact">>), text |-> "Our Team"],
      [href |-> Href("relative", "", <<"about">>), text |-> "Contact Us"],
      [href |-> Href("rooted", "", <<"blog">>), text |-> "Blog"] }

\* A parsed page, as soup.find_all('a', href=True) lists it
Soups == SeqsUpTo(LinkPool, MaxLinks)

\* str(e) of the exceptions the browser raises
ExcMessages == {"Timeout 30000ms exceeded.", "net::ERR_NAME_NOT_RESOLVED"}

NoResult == [none |-> TRUE]
NoUrl == [none |-> TRUE]

(***************************************************************************)
(* WebCrawler.extract_emails                                               *)
(***************************************************************************)
\* Mutant: the tokens are looked for in the email as written, not lowered
IsFalsePositive_caseSensitive(email) ==
    \E k \in 1..Len(false_positives) :
        Contains(Chars(email), Chars(false_positives[k]))

\* any(x in email.lower() for x in ['example', 'domain', 'email', 'user'])
IsFalsePositive(email) ==
    \E k \in 1..Len(false_positives) :
        Contains(Lower(Chars(email)), Chars(false_positives[k]))

\* len(email) < 6
IsTooShort(email) == Len(Chars(email)) < 6

\* text: the list email_pattern.findall(text) returns.  The result is
\* list(set(filtered_emails)): its elements, in no particular order.
extract_emails(text) ==
    {text[i] : i \in {j \in 1..Len(text) :
                        ~IsFalsePositive(text[j]) /\ ~IsTooShort(text[j])}}

(***************************************************************************)
(* WebCrawler.find_contact_pages                                           *)
(***************************************************************************)
\* any(keyword in text for keyword in self.contact_keywords), text lowered
HasContactKeyword(text) ==
    \E k \in 1..Len(contact_keywords) :
        Contains(Lower(Chars(text)), Chars(contact_keywords[k]))

\* The full_url computed for a link
LinkUrl(base_url, href) ==
    IF StartsWithSlash(href) THEN urljoin(base_url, href)
    ELSE IF StartsWithHttp(href) THEN Url(href.netloc, href.path)
    ELSE urljoin(base_url, href)

\* Mutant: the host of a candidate is not compared
SameDomain_always(full_url, base_domain) == TRUE

\* urlparse(full_url).netloc == base_domain   (lines 198, 217)
SameDomain(full_url, base_domain) == netloc(full_url) = base_domain

\* The full_url of the fixed paths (lines 196-197)
FixedPathUrls(base_url) ==
    {urljoin(base_url, Href("rooted", "", contact_paths[i])) :
        i \in 1..Len(contact_paths)}

find_contact_pages(soup, base_url) ==
    LET base_domain == netloc(base_url)
        fromPaths ==
            {urljoin(base_url, Href("rooted", "", contact_paths[i])) :
                i \in 1..Len(contact_paths)}
        fromLinks ==
            {LinkUrl(base_url, soup[i].href) :
                i \in {j \in 1..Len(soup) : HasContactKeyword(soup[j].text)}}
    IN  {u \in fromPaths \cup fromLinks : SameDomain(u, base_domain)}

(***************************************************************************)
(* WebCrawler.crawl_page                                                   *)
(***************************************************************************)
\* Mutant: the pages visited are reported whatever the outcome
ContactPagesChecked_always(es, visited) == visited

\* list(visited_urls) if not emails else []   (line 304)
ContactPagesChecked(es, visited) == IF es = {} THEN visited ELSE {}

\* Mutant: the normal return carries an 'error' key too
SuccessResult_errorKey(u, es, visited) ==
    [url |-> u, emails |-> es, error |-> <<>>,
     contact_pages_checked |-> IF es = {} THEN visited ELSE {}]

\* The dict of the normal return (lines 301-305): no 'error' key.
SuccessResult(u, es, visited) ==
    [url |-> u, emails |-> es,
     contact_pages_checked |-> ContactPagesChecked(es, visited)]

\* Mutant: the error return carries no 'error' key
ErrorResult_noErrorKey(u, msg) == [url |-> u, emails |-> {}]

\* The dict of an error return (lines 265, 310, 312): no
\* 'contact_pages_checked' key, 'emails' is [].
ErrorResult(u, msg) == [url |-> u, error |-> msg, emails |-> {}]

\* 'error' in crawl_result
HasError(r) == "error" \in DOMAIN r

\* The message the outer except stores (lines 308-312)
ErrorMessage(e) ==
    IF Contains(Lower(Chars(e)), Chars("timeout"))
    THEN <<"Timeout after 30 seconds: ", e>>
    ELSE <<e>>

\* finally: try: context.close(); browser.close() except: pass
\* An unbound `context` raises NameError at context.close(); the bare except
\* swallows it, as it swallows a close() that fails, and browser.close() is
\* then not reached.
FinallyBlock ==
    \E context_closes \in BOOLEAN :
        IF context = "unbound" \/ ~context_closes
        THEN UNCHANGED <<browser, context>>
        ELSE context' = "closed" /\ browser' = "closed"

\* A return statement inside the try: the dict is built, the finally block
\* runs, crawl_page returns.
ReturnDict(r) ==
    /\ result' = r
    /\ FinallyBlock
    /\ pc' = "done"

\* An exception reaches the outer except (lines 307-312)
Raise(e) == ReturnDict(ErrorResult(url, ErrorMessage(e)))

seedHistory == <<seed_outcome, seed_emails>>
loopHistory == <<fetched, failed, success_url, success_emails>>
loopLocals == <<emails, contact_urls, remaining, visited_urls>>

\* browser = p.chromium.launch(...)
Launch ==
    /\ pc = "launch"
    /\ \/ browser' = "open" /\ pc' = "new_context" /\ UNCHANGED <<context, result>>
       \/ \E e \in ExcMessages : Raise(e)
    /\ UNCHANGED <<searchVars, saveVars, mainVars, extractVars, redditVars, url, navigations, loopLocals, seedHistory, loopHistory>>

\* context = browser.new_context(...)
NewContext ==
    /\ pc = "new_context"
    /\ \/ context' = "open" /\ pc' = "new_page" /\ UNCHANGED <<browser, result>>
       \/ \E e \in ExcMessages : Raise(e)
    /\ UNCHANGED <<searchVars, saveVars, mainVars, extractVars, redditVars, url, navigations, loopLocals, seedHistory, loopHistory>>

\* page = context.new_page(); page.set_default_timeout(30000)
NewPage ==
    /\ pc = "new_page"
    /\ \/ pc' = "goto" /\ UNCHANGED <<browser, context, result>>
       \/ \E e \in ExcMessages : Raise(e)
    /\ UNCHANGED <<searchVars, saveVars, mainVars, extractVars, redditVars, url, navigations, loopLocals, seedHistory, loopHistory>>

\* Mutant: the `if not response` check is missing
SeedGotoResult_noCheck(r) ==
    IF r \in {"none", "response"}
    THEN pc' = "wait" /\ UNCHANGED <<browser, context, result>>
    ELSE ReturnDict(ErrorResult(url, ErrorMessage(r)))

\* What follows response = page.goto(url) (lines 263-265): r is "none" (no
\* response), "response", or the message of the exception goto raised.
SeedGotoResult(r) ==
    CASE r = "none" -> ReturnDict(ErrorResult(url, <<"Failed to load page">>))
      [] r = "response" -> pc' = "wait" /\ UNCHANGED <<browser, context, result>>
      [] OTHER -> Raise(r)

\* response = page.goto(url); if not response: return {...}
GotoSeed ==
    /\ pc = "goto"
    /\ \E r \in {"none", "response"} \cup ExcMessages :
        /\ seed_outcome' = (IF r \in {"none", "response"} THEN r ELSE "raised")
        /\ SeedGotoResult(r)
    /\ navigations' = navigations + 1
    /\ UNCHANGED <<searchVars, saveVars, mainVars, extractVars, redditVars, url,
                   loopLocals, seed_emails, loopHistory>>

\* page.wait_for_load_state('networkidle')
WaitSeed ==
    /\ pc = "wait"
    /\ \/ pc' = "content" /\ UNCHANGED <<browser, context, result, seed_outcome>>
       \/ \E e \in ExcMessages : Raise(e) /\ seed_outcome' = "raised"
    /\ UNCHANGED <<searchVars, saveVars, mainVars, extractVars, redditVars, url, navigations, loopLocals, seed_emails, loopHistory>>

\* Mutant: the contact pages are explored whatever the seed page gave
NeedsContactPages_always(es) == TRUE

\* if not emails:   (line 278)
NeedsContactPages(es) == es = {}

\* content = page.content(); soup = ...; emails = self.extract_emails(content)
\* and, with no emails, contact_urls = self.find_contact_pages(soup, url);
\* with emails, the return of lines 301-305.
ReadSeed ==
    /\ pc = "content"
    /\ \E text \in PageTexts, soup \in Soups :
        LET found == extract_emails(text) IN
        /\ emails' = found
        /\ seed_emails' = found
        /\ IF NeedsContactPages(found)
           THEN /\ contact_urls' = find_contact_pages(soup, url)
                /\ remaining' = find_contact_pages(soup, url)
                /\ visited_urls' = {}
                /\ pc' = "loop"
                /\ UNCHANGED <<browser, context, result>>
           ELSE /\ ReturnDict(SuccessResult(url, found, visited_urls))
                /\ UNCHANGED <<contact_urls, remaining, visited_urls>>
    /\ UNCHANGED <<searchVars, saveVars, mainVars, extractVars, redditVars, url, navigations, seed_outcome, loopHistory>>

\* response is None: nothing in the `if response:` block runs
CandidateNoResponse(contact_url) ==
    /\ failed' = failed \cup {contact_url}
    /\ pc' = "loop"
    /\ UNCHANGED <<emails, visited_urls, success_url, success_emails, browser,
                   context, result>>

\* Mutant: no try/except around the visit, the exception reaches the outer
\* except
CandidateRaised_propagates(contact_url, e) ==
    /\ failed' = failed \cup {contact_url}
    /\ ReturnDict(ErrorResult(url, ErrorMessage(e)))
    /\ UNCHANGED <<emails, visited_urls, success_url, success_emails>>

\* except Exception as e: print(...); continue   (lines 297-299)
CandidateRaised(contact_url, e) ==
    /\ failed' = failed \cup {contact_url}
    /\ pc' = "loop"
    /\ UNCHANGED <<emails, visited_urls, success_url, success_emails, browser,
                   context, result>>

\* Mutant: the `break` is missing, the loop goes on after emails were found
CandidateFound_noBreak(contact_url, contact_emails) ==
    /\ emails' = emails \cup contact_emails
    /\ success_url' = contact_url
    /\ success_emails' = contact_emails
    /\ pc' = "loop"
    /\ UNCHANGED <<visited_urls, failed, browser, context, result>>

\* if contact_emails: emails.extend(contact_emails); break   (lines 293-295)
\* and, after the loop, the return of lines 301-305
CandidateFound(contact_url, contact_emails) ==
    /\ emails' = emails \cup contact_emails
    /\ success_url' = contact_url
    /\ success_emails' = contact_emails
    /\ ReturnDict(SuccessResult(url, emails \cup contact_emails, visited_urls))
    /\ UNCHANGED <<visited_urls, failed>>

\* visited_urls.add(contact_url)   (line 296)
CandidateEmpty(contact_url) ==
    /\ visited_urls' = visited_urls \cup {contact_url}
    /\ pc' = "loop"
    /\ UNCHANGED <<emails, failed, success_url, success_emails, browser, context,
                   result>>

\* What extract_emails returns for the page texts
ExtractedFromPages == {extract_emails(t) : t \in PageTexts}

\* What the fetch of one candidate can give: no response, an exception, or a
\* page.  contact_content is read by extract_emails only, so a page is drawn
\* by what extract_emails returns for its text.
CandidateOutcomes ==
    {[kind |-> "none"]}
        \cup {[kind |-> "raised", exc |-> e] : e \in ExcMessages}
        \cup {[kind |-> "page", contact_emails |-> es] : es \in ExtractedFromPages}

\* Mutant: a link found on the fetched candidate page is queued as well
IteratorRest_followsLinks(rem, contact_url) ==
    (rem \ {contact_url}) \cup {Url(contact_url.netloc, <<"blog">>)}

\* What the iterator of `for contact_url in contact_urls` has left after it
\* yielded contact_url: contact_urls is not changed inside the loop
IteratorRest(rem, contact_url) == rem \ {contact_url}

\* One iteration of `for contact_url in contact_urls` (lines 282-299).  The
\* iteration order of a Python set is not specified: any element not yet
\* yielded may come next.
VisitCandidate ==
    /\ pc = "loop"
    /\ \E contact_url \in remaining :
        /\ remaining' = IteratorRest(remaining, contact_url)
        /\ IF contact_url \in visited_urls
           THEN UNCHANGED <<pc, emails, visited_urls, loopHistory, browser,
                            context, result, navigations>>
           ELSE /\ fetched' = fetched \cup {contact_url}
                /\ navigations' = navigations + 1
                /\ \E o \in CandidateOutcomes :
                    CASE o.kind = "none" -> CandidateNoResponse(contact_url)
                      [] o.kind = "raised" -> CandidateRaised(contact_url, o.exc)
                      [] o.kind = "page" ->
                            IF o.contact_emails # {}
                            THEN CandidateFound(contact_url, o.contact_emails)
                            ELSE CandidateEmpty(contact_url)
    /\ UNCHANGED <<searchVars, saveVars, mainVars, extractVars, redditVars, url,
                   contact_urls, seedHistory>>

\* The for-loop ends with the iterator exhausted; the return of lines 301-305
LoopExhausted ==
    /\ pc = "loop"
    /\ remaining = {}
    /\ ReturnDict(SuccessResult(url, emails, visited_urls))
    /\ UNCHANGED <<searchVars, saveVars, mainVars, extractVars, redditVars, url, navigations, loopLocals, seedHistory, loopHistory>>

\* The locals and history of crawl_page before its first statement
CrawlLocalsInit ==
    /\ browser = "unbound"
    /\ context = "unbound"
    /\ emails = {}
    /\ contact_urls = {}
    /\ remaining = {}
    /\ visited_urls = {}
    /\ result = NoResult
    /\ seed_outcome = "pending"
    /\ seed_emails = {}
    /\ fetched = {}
    /\ failed = {}
    /\ success_url = NoUrl
    /\ success_emails = {}
    /\ navigations = 0

\* No crawl_page call is running
CrawlIdle ==
    /\ pc = "idle"
    /\ url = NoUrl
    /\ CrawlLocalsInit

CrawlNext ==
    \/ Launch
    \/ NewContext
    \/ NewPage
    \/ GotoSeed
    \/ WaitSeed
    \/ ReadSeed
    \/ VisitCandidate
    \/ LoopExhausted

(***************************************************************************)
(* GoogleSearchAPI                                                         *)
(***************************************************************************)
\* self.max_results_per_page
max_results_per_page == 10

\* self.max_total_results
max_total_results == 100

\* The bound of `while start_index <= 100`   (line 119)
while_limit == 100

\* The default of search_domain's days_back   (line 94)
default_days_back == 365

\* datetime.now(): a calendar day and a time of day
Now == [day |-> 20, time_of_day |-> 7]

\* Mutant: the end date is never moved back
MinusDays_none(d, n) == d

\* d - timedelta(days=n)
MinusDays(d, n) == [d EXCEPT !.day = d.day - n]

\* d.strftime('%Y/%m/%d'): the calendar day, without the time of day
strftime(d) == d.day

\* _get_date_ranges(days_back): the k-th pass of the loop starts with end_date
\* k-1 days before now and appends (start_str, end_str) for that single day.
RECURSIVE DateRangesFrom(_, _)
DateRangesFrom(end_date, passes) ==
    IF passes <= 0 THEN <<>>
    ELSE LET start_date == end_date
             end_date2 == start_date
         IN  << <<strftime(start_date), strftime(end_date2)>> >>
                \o DateRangesFrom(MinusDays(start_date, 1), passes - 1)

get_date_ranges(n) == DateRangesFrom(Now, n)

\* URLs the search service may return as item['link']
HitUrls == {Url("acme.test", <<>>), Url("acme.test", <<"contact">>),
            Url("acme.test", <<"blog">>)}

\* The dict built per item (lines 83-88); title and snippet are copied from
\* the response and never read.
Hit(u, range) == [url |-> u, date_range |-> range]

\* Mutant: the membership test is missing, every hit is appended
IsNewUrl_always(u, seen) == TRUE

\* result['url'] not in seen_urls   (line 128)
IsNewUrl(u, seen) == u \notin seen

crawlAndSave == <<crawlVars, saveVars, mainVars, extractVars, redditVars>>

\* for start_date, end_date in date_ranges: start_index = 1; and, after the
\* last range, return all_results
NextRange ==
    /\ spc = "for_range"
    /\ IF range_index < Len(date_ranges)
       THEN /\ range_index' = range_index + 1
            /\ start_index' = 1
            /\ spc' = "while"
            /\ req_offset' = 0
            /\ req_kind' = "none"
            /\ window_requests' = 0
       ELSE /\ spc' = "done"
            /\ UNCHANGED <<range_index, start_index, req_offset, req_kind,
                           window_requests>>
    /\ UNCHANGED <<days_back, date_ranges, results_len, result_index, all_results,
                   seen_urls, queried, failed_ranges, slept, crawlAndSave>>

\* What one call of _search_with_date_range meets, and the length of the
\* list it builds:
\*   request_exception  requests.get or raise_for_status raises (lines 76-77)
\*   invalid_json       response.json() raises (line 78)
\*   key_error          an item has no 'link' or no 'title' (lines 84-85)
\*   no_items           the body has no 'items' key (lines 80-81)
\*   items              one dict per item of the response (lines 83-88)
SearchExceptions == {"request_exception", "invalid_json", "key_error"}

SearchOutcomes ==
    {[kind |-> k, len |-> 0] : k \in SearchExceptions \cup {"no_items"}}
        \cup {[kind |-> "items", len |-> n] : n \in 0..max_results_per_page}

\* Mutant: the except clause is missing
IsCaught_never(kind, json_error_is_request_exception) == FALSE

\* except requests.exceptions.RequestException (line 90).  The error of
\* response.json() is a RequestException in requests 2.27 and later and a
\* plain ValueError before; a KeyError never is.
IsCaught(kind, json_error_is_request_exception) ==
    \/ kind = "request_exception"
    \/ kind = "invalid_json" /\ json_error_is_request_exception

\* Mutant: the offset moves by one result
NextStartIndex_one(s) == s + 1

\* start_index += self.max_results_per_page   (line 139)
NextStartIndex(s) == s + max_results_per_page

\* Mutant: a full page is taken for the last one
IsShortPage_orFull(n) == n <= max_results_per_page

\* len(results) < self.max_results_per_page   (line 136)
IsShortPage(n) == n < max_results_per_page

\* Mutant: the loop has no ceiling
WhileCondition_noCeiling(s) == TRUE

\* start_index <= 100   (line 119)
WhileCondition(s) == s <= while_limit

\* while start_index <= 100: results = self._search_with_date_range(...);
\* if not results: break.  An exception the except clause does not catch
\* leaves _search_with_date_range and search_domain.
Request ==
    /\ spc = "while"
    /\ IF WhileCondition(start_index)
       THEN /\ \E o \in SearchOutcomes, json_error_is_request_exception \in BOOLEAN :
                /\ req_kind' = o.kind
                /\ failed_ranges' = IF o.kind = "request_exception"
                                    THEN failed_ranges \cup {range_index}
                                    ELSE failed_ranges
                /\ IF o.kind \in SearchExceptions
                      /\ ~IsCaught(o.kind, json_error_is_request_exception)
                   THEN /\ spc' = "raised"
                        /\ UNCHANGED <<results_len, result_index>>
                   ELSE /\ results_len' = o.len
                        /\ result_index' = 0
                        /\ spc' = IF o.len = 0 THEN "for_range" ELSE "for_result"
            /\ req_offset' = start_index
            /\ queried' = queried \cup {range_index}
            /\ window_requests' = window_requests + 1
            /\ slept' = FALSE
       ELSE /\ spc' = "for_range"
            /\ UNCHANGED <<results_len, result_index, searchHistory>>
    /\ UNCHANGED <<days_back, date_ranges, range_index, start_index, all_results,
                   seen_urls, crawlAndSave>>

\* One pass of `for result in results` (lines 127-131).  The service chooses
\* the items; an item's url is drawn when the loop reaches it.
ProcessResult ==
    /\ spc = "for_result"
    /\ result_index < results_len
    /\ \E u \in HitUrls :
        IF IsNewUrl(u, seen_urls)
        THEN /\ seen_urls' = seen_urls \cup {u}
             /\ all_results' = Append(all_results, Hit(u, date_ranges[range_index]))
        ELSE UNCHANGED <<seen_urls, all_results>>
    /\ result_index' = result_index + 1
    /\ UNCHANGED <<spc, days_back, date_ranges, range_index, start_index,
                   results_len, searchHistory, crawlAndSave>>

\* if len(results) < self.max_results_per_page: break
\* start_index += self.max_results_per_page; time.sleep(1)   (lines 136-140)
EndPage ==
    /\ spc = "for_result"
    /\ result_index = results_len
    /\ IF IsShortPage(results_len)
       THEN spc' = "for_range" /\ UNCHANGED <<start_index, slept>>
       ELSE /\ spc' = "while"
            /\ start_index' = NextStartIndex(start_index)
            /\ slept' = TRUE
    /\ UNCHANGED <<days_back, date_ranges, range_index, results_len, result_index,
                   all_results, seen_urls, req_offset, req_kind, queried,
                   failed_ranges, window_requests, crawlAndSave>>

\* No search_domain call is running
SearchIdle ==
    /\ spc = "idle"
    /\ days_back = 0
    /\ date_ranges = <<>>
    /\ range_index = 0
    /\ start_index = 0
    /\ results_len = 0
    /\ result_index = 0
    /\ all_results = <<>>
    /\ seen_urls = {}
    /\ req_offset = 0
    /\ req_kind = "none"
    /\ queried = {}
    /\ failed_ranges = {}
    /\ window_requests = 0
    /\ slept = FALSE

\* search_domain(domain, days_back) up to the first pass of its for-loop
SearchStart ==
    /\ spc = "for_range"
    /\ days_back \in 0..MaxDaysBack
    /\ date_ranges = get_date_ranges(days_back)
    /\ range_index = 0
    /\ start_index = 0
    /\ results_len = 0
    /\ result_index = 0
    /\ all_results = <<>>
    /\ seen_urls = {}
    /\ req_offset = 0
    /\ req_kind = "none"
    /\ queried = {}
    /\ failed_ranges = {}
    /\ window_requests = 0
    /\ slept = FALSE

SearchNext ==
    \/ NextRange
    \/ Request
    \/ ProcessResult
    \/ EndPage

(***************************************************************************)
(* MongoDBHandler                                                          *)
(***************************************************************************)
NoArg == [none |-> TRUE]

\* 'error' in crawl_result or not crawl_result['emails']   (line 337)
ShouldSkip(crawl_result) == HasError(crawl_result) \/ crawl_result.emails = {}

\* The filter {'url': ..., 'email': ...} of update_one
Key(doc) == <<doc.url, doc.email>>

\* Mutant: insert_one instead of an upsert
Upsert_insert(coll, doc) == Append(coll, doc)

\* collection.update_one({'url': ..., 'email': ...}, {'$set': document},
\* upsert=True): the first document matching the filter gets the fields of
\* `document`; without a match the document is inserted.
Upsert(coll, doc) ==
    LET matching == {i \in 1..Len(coll) : Key(coll[i]) = Key(doc)} IN
    IF matching = {} THEN Append(coll, doc)
    ELSE LET first == CHOOSE i \in matching : \A j \in matching : i <= j
         IN  [coll EXCEPT ![first] = doc]

\* The history of successful upserts after one more
Record(w, doc) ==
    LET k == Key(doc) IN
    IF k \in DOMAIN w
    THEN [w EXCEPT ![k] = [first |-> w[k].first, last |-> doc.crawled_at]]
    ELSE [x \in DOMAIN w \cup {k} |->
            IF x = k THEN [first |-> doc.crawled_at, last |-> doc.crawled_at]
            ELSE w[x]]

\* Mutant: the exception of update_one is not caught and ends the loop
AfterRaise_abort(order) == <<>>

\* except Exception as e: print(...)   (lines 355-356): the for-loop goes on
\* with the emails after the one whose update_one raised
AfterRaise(order) == Tail(order)

\* for email in crawl_result['emails']: ... (lines 341-356), for the emails in
\* list order `order`.  `st` is the store, the history and the clock;
\* `raises` are the emails whose update_one raises (caught, line 355);
\* `tick` is how far the clock moves between two passes.
RECURSIVE SaveLoop(_, _, _, _, _)
SaveLoop(st, u, order, raises, tick) ==
    IF order = <<>> THEN st
    ELSE LET email == Head(order)
             document == [url |-> u, email |-> email, crawled_at |-> st.now]
             called == [st EXCEPT !.attempted = @ \cup {email},
                                  !.after_failure =
                                        IF st.failed THEN @ \cup {email} ELSE @]
             passed ==
                IF email \in raises THEN [called EXCEPT !.failed = TRUE]
                ELSE [called EXCEPT
                        !.collection = Upsert(st.collection, document),
                        !.written = Record(st.written, document)]
             rest == IF email \in raises THEN AfterRaise(order) ELSE Tail(order)
             later == IF Len(order) > 1 THEN passed.now + tick ELSE passed.now
         IN  SaveLoop([passed EXCEPT !.now = later], u, rest, raises, tick)

\* The orders a list holding the elements of S can have
Orders(S) == {o \in [1..Cardinality(S) -> S] : Range(o) = S}

\* The crawl_result dicts crawl_page hands over, for the seed URL u
CrawlResultsFor(u) ==
    {ErrorResult(u, <<"Failed to load page">>)}
        \cup {ErrorResult(u, ErrorMessage(e)) : e \in ExcMessages}
        \cup {SuccessResult(u, es, {}) : es \in ExtractedFromPages}
        \cup {SuccessResult(u, {}, {Url(u.netloc, contact_paths[1])})}

\* The processed_result dicts main builds (lines 421-424)
ProcessedResults ==
    UNION {{[url |-> u, crawl_result |-> cr] : cr \in CrawlResultsFor(u)} :
                u \in SeedUrls}

\* Mutant: a result without emails is recorded too, as a row without email
OnSkip_recordsUrl(r) ==
    /\ collection' = Append(collection,
                            [url |-> r.url, email |-> "", crawled_at |-> now])
    /\ UNCHANGED <<written, now>>

\* if 'error' in crawl_result or not crawl_result['emails']: return
OnSkip(r) == UNCHANGED <<collection, written, now>>

\* save_result(result) for the argument r
SaveResultOf(r) ==
    LET crawl_result == r.crawl_result
        st0 == [collection |-> collection, written |-> written, now |-> now,
                attempted |-> {}, after_failure |-> {}, failed |-> FALSE]
    IN  /\ save_arg' = r
        /\ save_calls' = save_calls + 1
        /\ IF ShouldSkip(crawl_result)
           THEN /\ OnSkip(r)
                /\ save_attempted' = {}
                /\ save_after_failure' = {}
           ELSE \E order \in Orders(crawl_result.emails),
                   raises \in SUBSET crawl_result.emails,
                   tick \in 0..1 :
                    LET st == SaveLoop(st0, r.url, order, raises, tick) IN
                    /\ st.now <= MaxClock
                    /\ collection' = st.collection
                    /\ written' = st.written
                    /\ now' = st.now
                    /\ save_attempted' = st.attempted
                    /\ save_after_failure' = st.after_failure

\* A save_result call on its own, for any processed result
SaveResult ==
    /\ save_calls < MaxSaves
    /\ \E r \in ProcessedResults : SaveResultOf(r)
    /\ UNCHANGED <<crawlVars, searchVars, mainVars, extractVars, redditVars>>

\* Time passes between two save_result calls
Tick ==
    /\ now < MaxClock
    /\ now' = now + 1
    /\ UNCHANGED <<collection, save_calls, save_arg, written, save_attempted,
                   save_after_failure, crawlVars, searchVars, mainVars,
                   extractVars, redditVars>>

\* An empty store, no call made yet
SaveStart ==
    /\ collection = <<>>
    /\ now = 0
    /\ save_calls = 0
    /\ save_arg = NoArg
    /\ written = <<>>
    /\ save_attempted = {}
    /\ save_after_failure = {}

SaveNext ==
    \/ SaveResult
    \/ Tick

(***************************************************************************)
(* main and load_input_config                                              *)
(***************************************************************************)
\* The variables main reads with os.getenv (lines 386-388)
EnvNames == {"GOOGLE_SEARCH_API_KEY", "GOOGLE_SEARCH_ENGINE_ID", "MONGODB_URI"}

\* What open('input.json') and json.load can meet: no file, a file that is
\* not JSON, or a JSON object with some of the keys
InputFiles ==
    {[file |-> f, keys |-> {}, daysBack |-> 0] : f \in {"absent", "not_json"}}
        \cup {[file |-> "json", keys |-> ks, daysBack |-> 0] : ks \in SUBSET {"domain"}}
        \cup {[file |-> "json", keys |-> ks \cup {"daysBack"}, daysBack |-> n] :
                    ks \in SUBSET {"domain"}, n \in 0..MaxDaysBack}

\* The sequences of length n over S without repetition
RECURSIVE DistinctSeqs(_, _)
DistinctSeqs(S, n) ==
    IF n = 0 THEN {<<>>}
    ELSE UNION {{<<x>> \o q : q \in DistinctSeqs(S \ {x}, n - 1)} : x \in S}

\* What search_domain returns to main: hits with pairwise different urls.
\* main reads only result['url'].
PlannerReturns ==
    UNION {DistinctSeqs({Hit(u, <<strftime(Now), strftime(Now)>>) : u \in HitUrls}, n) :
                n \in 0..MaxHits}

\* The lines printed before the process ends early
EnvMessage == "Error: Please set all required environment variables"
NotFoundMessage == "Error: input.json file not found"
NotJsonMessage == "Error: input.json is not valid JSON"
NoDomainMessage == "Error: input.json must contain a 'domain' field"

mainInputs == <<environ, input_json>>
mainLoop == <<search_days_back, results, result_pos, main_all_results,
              crawl_calls, save_log>>

\* exit(status), and the end of the interpreter after main returned (status 0)
\* or after an uncaught exception (status 1)
Exit(position, status) ==
    /\ mpc' = position
    /\ exit_status' = <<status>>

\* if not all([api_key, search_engine_id, mongodb_uri]): print(...); return
\* (lines 390-392).  main is the last statement of the script: returning
\* from it ends the process with status 0.
CheckEnv ==
    /\ mpc = "env"
    /\ IF environ = EnvNames
       THEN mpc' = "config" /\ UNCHANGED <<exit_status, message>>
       ELSE message' = EnvMessage /\ Exit("returned", 0)
    /\ UNCHANGED <<mainInputs, files, mainLoop, crawlVars, searchVars, saveVars,
                   extractVars, redditVars>>

\* config = load_input_config() (lines 358-379), after the three constructors
LoadInputConfig ==
    /\ mpc = "config"
    /\ CASE input_json.file = "absent" ->
                message' = NotFoundMessage /\ Exit("exited", 1)
         [] input_json.file = "not_json" ->
                message' = NotJsonMessage /\ Exit("exited", 1)
         [] input_json.file = "json" /\ "domain" \notin input_json.keys ->
                message' = NoDomainMessage /\ Exit("exited", 1)
         [] OTHER ->
                mpc' = "search" /\ UNCHANGED <<exit_status, message>>
    /\ UNCHANGED <<mainInputs, files, mainLoop, crawlVars, searchVars, saveVars,
                   extractVars, redditVars>>

\* The days_back search_domain runs with in search_api.search_domain(domain)
\* (line 404): the call names no days_back, so it is the default of line 94
DaysBackArgument(config) == default_days_back

\* results = search_api.search_domain(domain); os.makedirs('results');
\* all_results = []   (lines 404-410).  An exception that leaves
\* search_domain is not caught in main.
SearchDomain ==
    /\ mpc = "search"
    /\ search_days_back' = DaysBackArgument(input_json)
    /\ \/ /\ results' \in PlannerReturns
          /\ files' = files \cup {[path |-> "results", kind |-> "directory"]}
          /\ mpc' = "for_result"
          /\ UNCHANGED exit_status
       \/ /\ Exit("crashed", 1)
          /\ UNCHANGED <<results, files>>
    /\ UNCHANGED <<mainInputs, message, result_pos, main_all_results, crawl_calls,
                   save_log, crawlVars, searchVars, saveVars, extractVars, redditVars>>

\* Mutant: the loop takes the first hit in every pass
ResultAt_first(rs, k) == rs[1]

\* The element `for result in results` yields in its k-th pass
ResultAt(rs, k) == rs[k]

\* One pass of the loop up to the append (lines 416-427): crawl_page is
\* called with result['url'] and returns one of its dicts; time may pass.
\* After the last pass main returns.
CrawlResult ==
    /\ mpc = "for_result"
    /\ IF result_pos < Len(results)
       THEN LET u == ResultAt(results, result_pos + 1).url IN
            /\ result_pos' = result_pos + 1
            /\ crawl_calls' = Append(crawl_calls, u)
            /\ \E crawl_result \in CrawlResultsFor(u) :
                    main_all_results' =
                        Append(main_all_results,
                               [url |-> u, crawl_result |-> crawl_result])
            /\ now' \in {t \in {now, now + 1} : t <= MaxClock}
            /\ mpc' = "save"
            /\ UNCHANGED exit_status
       ELSE /\ Exit("done", 0)
            /\ UNCHANGED <<result_pos, crawl_calls, main_all_results, now>>
    /\ UNCHANGED <<mainInputs, message, files, search_days_back, results, save_log,
                   crawlVars,
                   searchVars, collection, save_calls, save_arg, written,
                   save_attempted, save_after_failure, extractVars, redditVars>>

\* The rest of the pass (lines 430-446): save_result(processed_result), the
\* prints, time.sleep(2)
SaveProcessed ==
    /\ mpc = "save"
    /\ LET processed_result == main_all_results[Len(main_all_results)] IN
        /\ SaveResultOf(processed_result)
        /\ save_log' = Append(save_log, processed_result)
    /\ mpc' = "for_result"
    /\ UNCHANGED <<mainInputs, exit_status, message, files, search_days_back,
                   results, result_pos, main_all_results, crawl_calls, crawlVars,
                   searchVars,
                   extractVars, redditVars>>

\* main is not running
MainIdle ==
    /\ mpc = "idle"
    /\ environ = {}
    /\ input_json = [file |-> "absent", keys |-> {}, daysBack |-> 0]
    /\ exit_status = <<>>
    /\ message = ""
    /\ files = {}
    /\ search_days_back = 0
    /\ results = <<>>
    /\ result_pos = 0
    /\ main_all_results = <<>>
    /\ crawl_calls = <<>>
    /\ save_log = <<>>

\* The process before main's first test
MainStart ==
    /\ mpc = "env"
    /\ environ \in SUBSET EnvNames
    /\ input_json \in InputFiles
    /\ exit_status = <<>>
    /\ message = ""
    /\ files = {}
    /\ search_days_back = 0
    /\ results = <<>>
    /\ result_pos = 0
    /\ main_all_results = <<>>
    /\ crawl_calls = <<>>
    /\ save_log = <<>>

MainNext ==
    \/ CheckEnv
    \/ LoadInputConfig
    \/ SearchDomain
    \/ CrawlResult
    \/ SaveProcessed

(***************************************************************************)
(* WebCrawler.extract_emails, statement by statement                       *)
(***************************************************************************)
\* for email in potential_emails: one pass (lines 230-236)
FilterEmail ==
    /\ epc = "for_email"
    /\ email_index < Len(potential_emails)
    /\ LET email == potential_emails[email_index + 1] IN
        filtered_emails' =
            IF IsFalsePositive(email) THEN filtered_emails
            ELSE IF IsTooShort(email) THEN filtered_emails
            ELSE Append(filtered_emails, email)
    /\ email_index' = email_index + 1
    /\ UNCHANGED <<epc, potential_emails, extracted, crawlVars, searchVars, saveVars, mainVars,
                   redditVars>>

\* return list(set(filtered_emails)): the elements once each, in the order
\* the set happens to yield them
ReturnEmails ==
    /\ epc = "for_email"
    /\ email_index = Len(potential_emails)
    /\ extracted' \in Orders(Range(filtered_emails))
    /\ epc' = "returned"
    /\ UNCHANGED <<potential_emails, email_index, filtered_emails, crawlVars, searchVars,
                   saveVars, mainVars, redditVars>>

\* No extract_emails call is followed statement by statement
ExtractIdle ==
    /\ epc = "idle"
    /\ potential_emails = <<>>
    /\ email_index = 0
    /\ filtered_emails = <<>>
    /\ extracted = <<>>

\* extract_emails(potential_emails) after findall
ExtractStart ==
    /\ epc = "for_email"
    /\ potential_emails \in PageTexts
    /\ email_index = 0
    /\ filtered_emails = <<>>
    /\ extracted = <<>>

ExtractNext ==
    \/ FilterEmail
    \/ ReturnEmails

(***************************************************************************)
(* RedditJSONSearcher.search_subreddit_paginated (src/reddit)              *)
(***************************************************************************)
\* after = None
NoCursor == "None"

\* What one request of the loop meets:
\*   request_exception  requests.get or raise_for_status raises (lines 211-212)
\*   invalid_json       response.json() raises (line 214)
\*   no_data            the body has no 'data' or no 'children' (lines 216, 254)
\*   listing            data['data']['children'] holds len posts (line 217)
RedditOutcomes ==
    {[kind |-> k, len |-> 0] : k \in {"request_exception", "invalid_json", "no_data"}}
        \cup {[kind |-> "listing", len |-> n] : n \in 0..MaxPageLen}

\* What data['data']['after'] gives: KeyError when the key is absent, None,
\* or a cursor
Cursors == {"absent", NoCursor, "t3_next"}

\* A post is known by the request that brought it and its place in the page
Post(request, place) == <<request, place>>

reddit_others == <<crawlVars, searchVars, saveVars, mainVars, extractVars>>

\* The loop is left by a break or by its condition
Break(why) ==
    /\ rpc' = "return"
    /\ reddit_failure' = why

\* while len(all_posts) < max_posts: ... response.json() and the tests of
\* lines 216-220.  The except clause (line 257) catches RequestException.
RedditRequest ==
    /\ rpc = "while"
    /\ IF Len(all_posts) < max_posts
       THEN /\ reddit_requests' = reddit_requests + 1
            /\ \E o \in RedditOutcomes, json_error_is_request_exception \in BOOLEAN :
                CASE o.kind \in {"request_exception", "invalid_json"} ->
                        /\ IF IsCaught(o.kind, json_error_is_request_exception)
                           THEN Break(o.kind)
                           ELSE rpc' = "raised" /\ reddit_failure' = o.kind
                        /\ UNCHANGED <<page_len, page_index>>
                  [] o.kind = "no_data" ->
                        Break(o.kind) /\ UNCHANGED <<page_len, page_index>>
                  [] o.kind = "listing" /\ o.len = 0 ->
                        Break("empty_page") /\ UNCHANGED <<page_len, page_index>>
                  [] OTHER ->
                        /\ page_len' = o.len
                        /\ page_index' = 0
                        /\ rpc' = "for_post"
                        /\ UNCHANGED reddit_failure
       ELSE /\ rpc' = "return"
            /\ UNCHANGED <<reddit_requests, reddit_failure, page_len, page_index>>
    /\ UNCHANGED <<max_posts, all_posts, after, returned_posts, reddit_others>>

\* all_posts.append(post_info)   (line 242)
AddPost(posts, post) == Append(posts, post)

\* One pass of `for post in posts` (lines 222-242).  The subscripts
\* post['data'], post_data['title'], ... raise KeyError on a post that lacks
\* the key; no except clause catches it.
AppendPost ==
    /\ rpc = "for_post"
    /\ page_index < page_len
    /\ \E has_all_keys \in BOOLEAN :
        IF has_all_keys
        THEN /\ all_posts' = AddPost(all_posts, Post(reddit_requests, page_index + 1))
             /\ page_index' = page_index + 1
             /\ UNCHANGED <<rpc, reddit_failure>>
        ELSE /\ rpc' = "raised"
             /\ reddit_failure' = "key_error"
             /\ UNCHANGED <<all_posts, page_index>>
    /\ UNCHANGED <<max_posts, after, page_len, reddit_requests, returned_posts,
                   reddit_others>>

\* after = data['data']['after']; if not after: break; time.sleep(...)
\* (lines 245-253)
EndListing ==
    /\ rpc = "for_post"
    /\ page_index = page_len
    /\ \E cursor \in Cursors :
        CASE cursor = "absent" ->
                rpc' = "raised" /\ reddit_failure' = "key_error" /\ UNCHANGED after
          [] cursor = NoCursor ->
                after' = cursor /\ Break("no_cursor")
          [] OTHER ->
                after' = cursor /\ rpc' = "while" /\ UNCHANGED reddit_failure
    /\ UNCHANGED <<max_posts, all_posts, page_len, page_index, reddit_requests,
                   returned_posts, reddit_others>>

\* all_posts[:max_posts]
Truncate(posts, n) == SubSeq(posts, 1, IF Len(posts) < n THEN Len(posts) ELSE n)

\* return all_posts[:max_posts]   (line 262)
ReturnPosts ==
    /\ rpc = "return"
    /\ returned_posts' = Truncate(all_posts, max_posts)
    /\ rpc' = "done"
    /\ UNCHANGED <<max_posts, all_posts, after, page_len, page_index,
                   reddit_requests, reddit_failure, reddit_others>>

\* No search_subreddit_paginated call is running
RedditIdle ==
    /\ rpc = "idle"
    /\ max_posts = 0
    /\ all_posts = <<>>
    /\ after = NoCursor
    /\ page_len = 0
    /\ page_index = 0
    /\ reddit_requests = 0
    /\ reddit_failure = ""
    /\ returned_posts = <<>>

\* search_subreddit_paginated(subreddit, search_term, max_posts) before the
\* first test of its loop (lines 190-192)
RedditStart ==
    /\ rpc = "while"
    /\ max_posts \in 0..MaxPosts
    /\ all_posts = <<>>
    /\ after = NoCursor
    /\ page_len = 0
    /\ page_index = 0
    /\ reddit_requests = 0
    /\ reddit_failure = ""
    /\ returned_posts = <<>>

RedditNext ==
    \/ RedditRequest
    \/ AppendPost
    \/ EndListing
    \/ ReturnPosts

(***************************************************************************)
(* Specifications                                                          *)
(***************************************************************************)
\* One crawl_page call
CrawlInit ==
    /\ pc = "launch"
    /\ url \in SeedUrls
    /\ CrawlLocalsInit
    /\ SearchIdle
    /\ SaveStart
    /\ MainIdle
    /\ ExtractIdle
    /\ RedditIdle

CrawlSpec == CrawlInit /\ [][CrawlNext]_vars

\* One crawl_page call whose steps are taken: every browser call returns,
\* fails or times out
CrawlFairSpec == CrawlSpec /\ WF_vars(CrawlNext)

\* One search_domain call
SearchInit ==
    SearchStart /\ CrawlIdle /\ SaveStart /\ MainIdle /\ ExtractIdle /\ RedditIdle

SearchSpec == SearchInit /\ [][SearchNext]_vars

\* One search_domain call whose steps are taken: the interpreter goes on,
\* and requests.get returns or raises
SearchFairSpec == SearchSpec /\ WF_vars(SearchNext)

\* A sequence of save_result calls on one store
SaveInit ==
    SaveStart /\ CrawlIdle /\ SearchIdle /\ MainIdle /\ ExtractIdle /\ RedditIdle

SaveSpec == SaveInit /\ [][SaveNext]_vars

\* One run of the script
MainInit ==
    MainStart /\ CrawlIdle /\ SearchIdle /\ SaveStart /\ ExtractIdle /\ RedditIdle

MainSpec == MainInit /\ [][MainNext]_vars

\* One extract_emails call
ExtractInit ==
    ExtractStart /\ CrawlIdle /\ SearchIdle /\ SaveStart /\ MainIdle /\ RedditIdle

ExtractSpec == ExtractInit /\ [][ExtractNext]_vars

\* One search_subreddit_paginated call
RedditInit ==
    RedditStart /\ CrawlIdle /\ SearchIdle /\ SaveStart /\ MainIdle /\ ExtractIdle

RedditSpec == RedditInit /\ [][RedditNext]_vars

(***************************************************************************)
(* Properties of crawl_page (checked under CrawlSpec)                      *)
(***************************************************************************)
\* crawl_page has returned
Returned == pc = "done"

\* The seed page was fetched: goto gave a response and the wait did not raise
SeedLoaded == seed_outcome = "response" /\ pc \in {"loop", "done"}

\* The fetch of the seed page failed
SeedFailed == seed_outcome \in {"none", "raised"}

\* A candidate page yielded emails
CandidateSucceeded == success_url # NoUrl

\* The candidate loop ran to its end without emails
Exhausted ==
    /\ Returned
    /\ SeedLoaded
    /\ seed_emails = {}
    /\ ~CandidateSucceeded

\* C2: a returned result never has both an 'error' key and a non-empty
\* emails list.
C2_ErrorExcludesEmails ==
    Returned => ~(HasError(result) /\ result.emails # {})

\* C2 witness: a crawl returned an error after the browser had started
C2_Witness ==
    Returned /\ HasError(result) /\ browser # "unbound" /\ result.emails = {}

\* C5: when the fetch of the seed URL fails (no response, or goto / the
\* network-idle wait raises) the result has 'error' set and emails empty, and
\* no candidate page is fetched.
C5_SeedFailureIsError ==
    (Returned /\ SeedFailed) =>
        /\ HasError(result)
        /\ result.emails = {}
        /\ fetched = {}

\* C5 witness: the seed navigation gave no response and crawl_page returned
C5_Witness == Returned /\ seed_outcome = "none"

\* C6: when the seed page loads and extract_emails finds emails on it, the
\* result holds exactly those emails, contact_pages_checked empty and no
\* error, and no candidate page is fetched.
C6_SeedEmailsSucceed ==
    (Returned /\ SeedLoaded /\ seed_emails # {}) =>
        /\ result = [url |-> url, emails |-> seed_emails,
                     contact_pages_checked |-> {}]
        /\ fetched = {}

\* C6 witness: a seed page with two distinct emails
C6_Witness ==
    Returned /\ SeedLoaded /\ Cardinality(seed_emails) = 2

C8_AttemptedAreChecked ==
    Exhausted =>
        /\ fetched \subseteq visited_urls
        /\ result.emails = {}
        /\ ~HasError(result)
        /\ result.contact_pages_checked = fetched

\* C9: a fetch failure on a candidate page never sets the result's error and
\* never stops the iteration (a crawl that found no emails returns only after
\* every candidate was attempted); an error is set only by a failure before the
\* candidate loop, in the seed stage.
C9_CandidateFailureContained ==
    /\ (failed # {}) => pc \in {"loop", "done"}
    /\ (Returned /\ failed # {}) => ~HasError(result)
    /\ (Returned /\ failed # {} /\ ~CandidateSucceeded) =>
            remaining = {} /\ fetched = contact_urls
    /\ (Returned /\ HasError(result)) => fetched = {}

\* C9 witness: every candidate failed, and every one of them was attempted
C9_Witness ==
    Returned /\ contact_urls # {} /\ failed = contact_urls /\ ~HasError(result)

\* C10: once a candidate page yields emails no further candidate is fetched,
\* and the result's emails are exactly the emails of that one page.
C10_StopAtFirstEmails ==
    [][/\ CandidateSucceeded => fetched' = fetched
       /\ (pc' = "done" /\ success_url' # NoUrl) =>
            /\ result'.emails = success_emails'
            /\ ~HasError(result')
            /\ success_emails' # {}]_vars

\* C10 witness: the crawl returned a candidate's emails with candidates left
\* unfetched and others visited in vain before
C10_Witness ==
    /\ Returned
    /\ CandidateSucceeded
    /\ remaining # {}
    /\ visited_urls # {}
    /\ failed # {}
    /\ result.emails = success_emails

FixedCandidates == contact_urls \cap FixedPathUrls(url)
LinkCandidates == contact_urls \ FixedPathUrls(url)

\* C22: every url find_contact_pages returned, and so every candidate
\* crawl_page fetched, has the network location of the seed url.
C22_CandidatesOnSeedHost ==
    pc # "idle" =>
        /\ \A u \in contact_urls : netloc(u) = netloc(url)
        /\ \A u \in fetched : netloc(u) = netloc(url)

\* C22 witness: a candidate that a link of the seed page gave was fetched
C22_Witness ==
    /\ Url("acme.test", <<"reach-us">>) \in fetched
    /\ Url("acme.test", <<"reach-us">>) \in LinkCandidates

\* C23: a candidate found only through a link of the seed page is fetched
\* after every fixed-path candidate: when such a candidate has been fetched,
\* all fixed-path candidates have been fetched before.
C23_FixedPathsFirst ==
    pc # "idle" /\ fetched \cap LinkCandidates # {} => FixedCandidates \subseteq fetched

\* C24: every candidate fetched is one find_contact_pages computed from the
\* seed page, and the candidate set does not change while the loop runs.
C24_OneHop ==
    /\ [](fetched \subseteq contact_urls /\ remaining \subseteq contact_urls)
    /\ [][pc = "loop" => contact_urls' = contact_urls]_vars

\* C24 witness: candidates were fetched, one of them gave a page without
\* emails, and crawl_page returned
C24_Witness ==
    /\ Returned
    /\ Cardinality(fetched) >= 2
    /\ visited_urls # {}

\* C25: crawl_page navigates to no url twice: the seed url, fetched first,
\* is not among the candidates fetched.
C25_NoUrlTwice ==
    pc # "idle" => url \notin fetched

\* The three ways crawl_page ends, read from the returned dict and the
\* history of the call
FetchFailedOutcome == HasError(result) /\ result.emails = {}
SucceededOutcome ==
    /\ ~HasError(result)
    /\ result.emails # {}
    /\ seed_emails # {} \/ CandidateSucceeded
ExhaustedOutcome == ~HasError(result) /\ result.emails = {} /\ Exhausted

EmittedUrls == {all_results[i].url : i \in 1..Len(all_results)}

\* C1: at every point of a run no two hits of all_results have the same url,
\* and the urls of all_results are exactly the seen-set (each was added once).
C1_NoDuplicateUrls ==
    /\ \A i, j \in 1..Len(all_results) :
            all_results[i].url = all_results[j].url => i = j
    /\ EmittedUrls = seen_urls
    /\ Len(all_results) = Cardinality(seen_urls)

\* C1 witness: in the second date range a full page was processed, so the
\* service repeated urls within the page and across ranges, and every url of
\* the pool was emitted, from two different ranges
C1_Witness ==
    /\ spc = "for_result"
    /\ range_index = 2
    /\ results_len = max_results_per_page
    /\ result_index = results_len
    /\ EmittedUrls = HitUrls
    /\ \E i, j \in 1..Len(all_results) :
            all_results[i].date_range # all_results[j].date_range

\* The loop head `while start_index <= 100` with the condition true: the
\* next step is a request
AtRequest == spc = "while" /\ start_index <= while_limit

\* The while-loop of date range number range_index was left (by a break or by
\* its condition) and search_domain goes on
WindowEnded == spc \in {"for_range", "done"} /\ range_index > 0

\* The date ranges whose hits are in all_results
EmittedRanges == {all_results[i].date_range : i \in 1..Len(all_results)}

\* C11: within one date range the requests carry the offsets 1, 11, 21, ...
\* in order: the first request of a range has offset 1; the loop head is
\* reached again only after a page of exactly 10 items, with the offset moved
\* by 10; at the loop head with an offset of at most 100 the next step is a
\* request with that offset for the same range; and a range is left only
\* after a page of fewer than 10 items (zero included) or when the next
\* offset would exceed 100.
C11_OffsetsInOrder ==
    /\ [](/\ req_offset \in {0} \cup {1 + max_results_per_page * k : k \in 0..9}
          /\ spc = "while" /\ req_offset = 0 => start_index = 1
          /\ spc = "while" /\ req_offset > 0 =>
                /\ req_kind = "items"
                /\ results_len = max_results_per_page
                /\ start_index = req_offset + max_results_per_page
          /\ WindowEnded =>
                /\ req_offset > 0
                /\ \/ results_len < max_results_per_page
                   \/ req_offset + max_results_per_page > while_limit)
    /\ [][AtRequest =>
            /\ req_offset' = start_index
            /\ range_index' = range_index
            /\ range_index \in queried']_vars

\* C11 witness: the third request of the second date range was made, with
\* offset 21, and its page is being processed
C11_Witness ==
    /\ spc = "for_result"
    /\ range_index = 2
    /\ req_offset = 21
    /\ start_index = 21

\* C12 as stated: a date range is never left after a page of exactly 10
\* items; one more page is requested first.
C12_Original ==
    WindowEnded => ~(req_kind = "items" /\ results_len = max_results_per_page)

\* C12 amended: a date range is left after a page of exactly 10 items only
\* when that page was requested at offset 91, so that the next offset, 101,
\* exceeds 100; after every other page of exactly 10 items the next step of
\* the planner for that range is the request of one more page.
C12_FullPageContinues ==
    /\ [](WindowEnded /\ req_kind = "items" /\ results_len = max_results_per_page
            => req_offset = 91 /\ start_index = 101)
    /\ [][(/\ spc = "for_result"
           /\ result_index = results_len
           /\ results_len = max_results_per_page
           /\ start_index + max_results_per_page <= while_limit)
          => (/\ spc' = "while"
              /\ range_index' = range_index
              /\ start_index' = start_index + max_results_per_page)]_vars

\* C12 witness: the first page of a range had exactly 10 items, one more page
\* was requested at offset 11, it had no items, and the range was left
C12_Witness ==
    /\ WindowEnded
    /\ req_offset = 11
    /\ req_kind = "no_items"

\* C13: a request that fails in transport ends the while-loop of its date range
\* and nothing else: that step leaves all_results and seen_urls as they are
\* and goes to the next range; no later request is made for the failed range;
\* all_results only ever grows; the first request of every range has offset
\* 1; search_domain does not leave by that exception; and when it returns,
\* a request was made for every date range.
C13_TransportFailureEndsWindowOnly ==
    /\ [](/\ range_index \in failed_ranges =>
                spc \in {"for_range", "done"} /\ req_kind = "request_exception"
          /\ spc = "raised" => req_kind # "request_exception"
          /\ spc = "done" => queried = 1..Len(date_ranges))
    /\ [][/\ AtRequest /\ req_kind' = "request_exception" =>
                /\ spc' = "for_range"
                /\ range_index' = range_index
                /\ all_results' = all_results
                /\ seen_urls' = seen_urls
          /\ range_index' \notin queried /\ range_index' \in queried' =>
                req_offset' = 1
          /\ Len(all_results) <= Len(all_results')
          /\ SubSeq(all_results', 1, Len(all_results)) = all_results]_vars

\* C13 witness: the second request of the first date range failed after its
\* first page had given hits; the second range was queried and gave a hit of
\* its own; search_domain returned both
C13_Witness ==
    /\ spc = "done"
    /\ Len(date_ranges) = 2
    /\ failed_ranges = {1}
    /\ queried = {1, 2}
    /\ EmittedRanges = {date_ranges[1], date_ranges[2]}

\* search_domain has ended, by its return statement or by an exception
SearchEnded == spc \in {"done", "raised"}

\* C27: whatever the search service answers, search_domain comes to an end;
\* it makes at most 10 requests for a date range, the k-th of them at offset
\* 1 + 10 (k - 1) and none at an offset above 100, and it makes requests
\* for at most days_back date ranges, each range being gone through once:
\* at most 10 x days_back requests in all.
C27_BoundedRequests ==
    /\ [](/\ window_requests <= 10
          /\ req_offset <= max_total_results
          /\ window_requests > 0 =>
                req_offset = 1 + max_results_per_page * (window_requests - 1)
          /\ window_requests = 0 => req_offset = 0
          /\ queried \subseteq 1..range_index
          /\ range_index <= days_back)
    /\ [][range_index' >= range_index]_vars
    /\ <>SearchEnded

\* C27 witness: the service gave ten full pages for the second date range;
\* the tenth request was made at offset 91 and search_domain returned
C27_Witness ==
    /\ spc = "done"
    /\ range_index = 2
    /\ window_requests = 10
    /\ req_offset = 91
    /\ results_len = max_results_per_page

\* C28: a request that is not the first of the run is made only after
\* time.sleep ran since the request before it, be that request of the same
\* date range or of the range before.
C28_DelayBetweenRequests ==
    AtRequest /\ queried # {} => slept

\* C14: a malformed response (a body that is not JSON, an item without
\* 'link' or 'title') counts as an empty page: search_domain does not leave
\* by an exception and goes on to the next date range.
C14_MalformedIsEmpty ==
    req_kind \in {"invalid_json", "key_error"} =>
        spc # "raised" /\ results_len = 0

\* C15: _get_date_ranges(days_back) has exactly days_back elements, the i-th
\* (from 0) being the single day i days before today as both start and end,
\* so the days are distinct and descend; with days_back = 0 the list is
\* empty, no request is made and all_results stays empty.
C15_DailyWindows ==
    spc # "idle" =>
        /\ Len(date_ranges) = days_back
        /\ \A k \in 1..Len(date_ranges) :
                date_ranges[k] = <<Now.day - (k - 1), Now.day - (k - 1)>>
        /\ \A j, k \in 1..Len(date_ranges) :
                j < k => date_ranges[k][2] < date_ranges[j][1]
        /\ days_back = 0 =>
                /\ date_ranges = <<>>
                /\ queried = {}
                /\ all_results = <<>>
                /\ spc \in {"for_range", "done"}

\* C15 witness: search_domain returned after a request for each of the
\* MaxDaysBack date ranges, the last of them with hits
C15_Witness ==
    /\ spc = "done"
    /\ days_back = MaxDaysBack
    /\ queried = 1..MaxDaysBack
    /\ date_ranges[MaxDaysBack] \in EmittedRanges

(***************************************************************************)
(* Properties of save_result (checked under SaveSpec)                      *)
(***************************************************************************)
\* The documents of the store with key k
DocsWithKey(k) == {i \in 1..Len(collection) : Key(collection[i]) = k}

\* C3: after any sequence of save_result calls the store holds exactly one
\* record per (url, email) pair that was saved, and its crawled_at is the time
\* of the latest save of that pair (a save being an upsert the store accepted).
C3_OneRecordPerKey ==
    /\ \A k \in DOMAIN written :
        /\ Cardinality(DocsWithKey(k)) = 1
        /\ \A i \in DocsWithKey(k) : collection[i].crawled_at = written[k].last
    /\ \A i \in 1..Len(collection) : Key(collection[i]) \in DOMAIN written

\* C3 witness: a pair was saved again at a later time, beside another record
C3_Witness ==
    /\ Len(collection) >= 2
    /\ \E k \in DOMAIN written : written[k].last > written[k].first

\* C4: a save_result call whose crawl result has an error or no emails leaves
\* the store unchanged.
C4_SkipLeavesStore ==
    [][(save_calls' # save_calls /\ ShouldSkip(save_arg'.crawl_result))
            => collection' = collection]_vars

\* C4 witness: the latest call carried a seed fetch that timed out, and the
\* store, not empty, holds nothing for that URL
C4_Witness ==
    /\ save_calls > 0
    /\ HasError(save_arg.crawl_result)
    /\ save_arg.crawl_result.error =
            <<"Timeout after 30 seconds: ", "Timeout 30000ms exceeded.">>
    /\ collection # <<>>
    /\ \A i \in 1..Len(collection) : collection[i].url # save_arg.url

\* C19: an update_one that raises does not end the loop of save_result: after
\* every call that was not skipped, update_one was called for each email of
\* the crawl result, those after a failed one included, and every record a
\* successful upsert wrote, in this call or before, is in the store with the
\* time of its latest upsert.
C19_WriteFailureContained ==
    /\ save_calls > 0 /\ ~ShouldSkip(save_arg.crawl_result) =>
            /\ save_attempted = save_arg.crawl_result.emails
            /\ save_after_failure \subseteq save_attempted
    /\ \A k \in DOMAIN written :
            \E i \in 1..Len(collection) :
                Key(collection[i]) = k /\ collection[i].crawled_at = written[k].last

\* C19 witness: in the first call, for a result with two emails, the first
\* update_one raised and the second, made after it, wrote its record
C19_Witness ==
    /\ save_calls = 1
    /\ Cardinality(save_arg.crawl_result.emails) = 2
    /\ Cardinality(save_after_failure) = 1
    /\ \A e \in save_after_failure :
            <<save_arg.url, e>> \in DOMAIN written
    /\ Len(collection) = 1

(***************************************************************************)
(* Properties of main (checked under MainSpec)                             *)
(***************************************************************************)
\* Some required configuration is missing
ConfigMissing ==
    \/ environ # EnvNames
    \/ input_json.file # "json"
    \/ "domain" \notin input_json.keys

\* The process has ended
Ended == exit_status # <<>>

\* The JSON files main has written
JsonFiles == {f \in files : f.kind = "json"}

\* C16: a run that got past the loading of the configuration and has crawled
\* its last seed has written exactly one JSON file, holding one entry per
\* seed URL with its crawl result (stated for the runs with at least one
\* seed URL).
C16_ArtifactWrittenOnce ==
    mpc = "done" /\ Len(results) > 0 =>
        /\ Cardinality(JsonFiles) = 1
        /\ \A f \in JsonFiles : f.content = main_all_results

\* C17: when required configuration is missing the run ends before any
\* search, with an error line printed and a non-zero exit status, at the
\* first test that finds it missing.
C17_MissingConfigExitsNonZero ==
    ConfigMissing =>
        /\ mpc \in {"env", "config", "returned", "exited"}
        /\ Ended => message # "" /\ exit_status # <<0>>

C29_ConfiguredDaysBackUsed ==
    mpc \in {"for_result", "save", "done"} /\ "daysBack" \in input_json.keys =>
        search_days_back = input_json.daysBack

(***************************************************************************)
(* Properties of extract_emails (checked under ExtractSpec)                *)
(***************************************************************************)
\* The four tokens of line 232, as the claim names them
DenylistedTokens == {"example", "domain", "email", "user"}

\* C21: the list extract_emails returns has no element twice, none of its
\* elements contains a denylisted token when lowered, none is shorter than
\* six characters, and every match that contains no such token and has six
\* characters or more is in it.
C21_FilteredWithoutDuplicates ==
    epc = "returned" =>
        /\ \A i, j \in 1..Len(extracted) : extracted[i] = extracted[j] => i = j
        /\ \A i \in 1..Len(extracted) :
            /\ \A token \in DenylistedTokens :
                    ~Contains(Lower(Chars(extracted[i])), Chars(token))
            /\ Len(Chars(extracted[i])) >= 6
            /\ extracted[i] \in Range(potential_emails)
        /\ \A k \in 1..Len(potential_emails) :
            (/\ \A token \in DenylistedTokens :
                    ~Contains(Lower(Chars(potential_emails[k])), Chars(token))
             /\ Len(Chars(potential_emails[k])) >= 6)
                => potential_emails[k] \in Range(extracted)
        /\ Range(extracted) = extract_emails(potential_emails)

\* C21 witness: the text held the same six-character address twice and
\* extract_emails returned it once
C21_Witness ==
    /\ epc = "returned"
    /\ Len(potential_emails) = 2
    /\ potential_emails[1] = potential_emails[2]
    /\ Len(Chars(potential_emails[1])) = 6
    /\ extracted = <<potential_emails[1]>>

(***************************************************************************)
(* Properties of search_subreddit_paginated (checked under RedditSpec)     *)
(***************************************************************************)
\* C30: whatever the forum API answers, once posts have been gathered
\* search_subreddit_paginated leaves by its return statement and not by an
\* exception that discards them; what it returns is the first posts
\* received, in the order received, at most max_posts of them; and with
\* max_posts = 0 it makes no request.
C30_PaginatedSearchReturns ==
    /\ all_posts # <<>> => rpc # "raised"
    /\ rpc = "done" =>
            /\ Len(returned_posts) <= max_posts
            /\ returned_posts = SubSeq(all_posts, 1, Len(returned_posts))
            /\ Len(all_posts) <= max_posts => returned_posts = all_posts
    /\ max_posts = 0 => reddit_requests = 0

====
